---------------------------- MODULE Spec2Model ----------------------------
(***************************************************************************)
(* A model of the datetime crate (src/src/lib.rs): the calendar conversion *)
(* DtCache::from_secs, the lazily evaluated DateTime built on it, its      *)
(* accessors, as_time_stamp, From<SystemTime>, Add and AddAssign.          *)
(*                                                                         *)
(* usize is the machine word.  TLC's integers are 32 bits wide, so the     *)
(* word is modelled WordBits wide; u64 (Duration::as_secs) is taken to be  *)
(* as wide as usize, as on a 64-bit target, so that `as usize` keeps the   *)
(* value.                                                                  *)
(***************************************************************************)
EXTENDS Integers, Sequences, FiniteSets, TLC

\* Width of the modelled machine word.
WordBits == 30

\* Number of additions (add, add_assign) a behaviour may perform.
MaxOps == 2

\* usize::MAX of the modelled word, written so that no intermediate value
\* leaves TLC's integers.
USIZE_MAX == (2^(WordBits - 1) - 1) * 2 + 1

(***************************************************************************)
(* The enums.                                                              *)
(***************************************************************************)
Day == {"Sunday", "Monday", "Tuesday", "Wednesday", "Thursday", "Friday",
        "Saturday"}

Month == {"January", "February", "March", "April", "May", "June", "July",
          "August", "September", "October", "November", "December"}

(***************************************************************************)
(* The calendar conversion.                                                *)
(***************************************************************************)
is_leap_year(year) ==
    IF year % 400 = 0 THEN TRUE
    ELSE IF year % 100 = 0 THEN FALSE
    ELSE IF year % 4 = 0 THEN TRUE
    ELSE FALSE

\* The closure of the year table: the seconds of `year`.
sec_per_year(year) ==
    LET days_per_year == IF is_leap_year(year) THEN 366 ELSE 365
    IN  days_per_year * 24 * 60 * 60

\* A plausible slip: the stopping test is not strict.
RECURSIVE YearLoop_NotStrict(_, _)
YearLoop_NotStrict(x, year) ==
    IF x <= sec_per_year(year)
    THEN [x |-> x, date_year |-> year]
    ELSE YearLoop_NotStrict(x - sec_per_year(year), year + 1)

\* The year loop, entered with the remainder x at the table's entry `year`.
\* The table (1970..) has no end: the loop is left through its break only.
RECURSIVE YearLoop(_, _)
YearLoop(x, year) ==
    IF x < sec_per_year(year)
    THEN [x |-> x, date_year |-> year]
    ELSE YearLoop(x - sec_per_year(year), year + 1)

\* The month table with February `feb` days long.
TableWithFebruary(feb) ==
    << [month |-> "January", days |-> 31],
       [month |-> "February", days |-> feb],
       [month |-> "March", days |-> 31],
       [month |-> "April", days |-> 30],
       [month |-> "May", days |-> 31],
       [month |-> "June", days |-> 30],
       [month |-> "July", days |-> 31],
       [month |-> "August", days |-> 31],
       [month |-> "September", days |-> 30],
       [month |-> "October", days |-> 31],
       [month |-> "November", days |-> 30],
       [month |-> "December", days |-> 31] >>

\* A plausible slip: February is given 29 days whatever the year.
MonthTable_Feb29(date_year) == TableWithFebruary(29)

\* A plausible slip: February's length is taken from the starting year
\* (1970, 28 days), not from the resolved one.
MonthTable_StartYear(date_year) == TableWithFebruary(28)

\* The month table of the resolved year.
MonthTable(date_year) ==
    << [month |-> "January", days |-> 31],
       [month |-> "February",
        days |-> IF is_leap_year(date_year) THEN 29 ELSE 28],
       [month |-> "March", days |-> 31],
       [month |-> "April", days |-> 30],
       [month |-> "May", days |-> 31],
       [month |-> "June", days |-> 30],
       [month |-> "July", days |-> 31],
       [month |-> "August", days |-> 31],
       [month |-> "September", days |-> 30],
       [month |-> "October", days |-> 31],
       [month |-> "November", days |-> 30],
       [month |-> "December", days |-> 31] >>

\* The month loop, entered with the remainder x at entry i of the table.
\* broke tells whether it was left through its break; when the table runs
\* out, date_month keeps its initial value January.
RECURSIVE MonthLoop(_, _, _)
MonthLoop(x, table, i) ==
    IF i > Len(table)
    THEN [x |-> x, date_month |-> "January", broke |-> FALSE]
    ELSE LET sec_per_month == table[i].days * 24 * 60 * 60
         IN  IF x < sec_per_month
             THEN [x |-> x, date_month |-> table[i].month, broke |-> TRUE]
             ELSE MonthLoop(x - sec_per_month, table, i + 1)

\* A plausible slip: the weekday anchor is off by one.
get_day_Anchor3(time) ==
    LET day == (((time \div 24) \div 60) \div 60 + 3) % 7
    IN  CASE day = 0 -> "Sunday"
          [] day = 1 -> "Monday"
          [] day = 2 -> "Tuesday"
          [] day = 3 -> "Wednesday"
          [] day = 4 -> "Thursday"
          [] day = 5 -> "Friday"
          [] day = 6 -> "Saturday"

get_day(time) ==
    LET day0 == ((time \div 24) \div 60) \div 60
        day1 == day0 + 4
        day == day1 % 7
    IN  CASE day = 0 -> "Sunday"
          [] day = 1 -> "Monday"
          [] day = 2 -> "Tuesday"
          [] day = 3 -> "Wednesday"
          [] day = 4 -> "Thursday"
          [] day = 5 -> "Friday"
          [] day = 6 -> "Saturday"

\* A plausible slip: the day of the month is left zero-based.
DtCache_fields_ZeroBased(secs, date_year, ml) ==
    LET day == ((ml.x \div 24) \div 60) \div 60
        x1 == ml.x - day * 24 * 60 * 60
        hour == (x1 \div 60) \div 60
        x2 == x1 - hour * 60 * 60
        minute == x2 \div 60
        x3 == x2 - minute * 60
    IN  [year |-> date_year, month |-> ml.date_month, day |-> get_day(secs),
         date |-> day, hour |-> hour, minute |-> minute, second |-> x3]

\* The end of DtCache::from_secs, after its two loops: date_year is the
\* year the year loop resolved, ml what the month loop left (the remainder
\* x and date_month).
DtCache_fields(secs, date_year, ml) ==
    LET day == ((ml.x \div 24) \div 60) \div 60
        x1 == ml.x - day * 24 * 60 * 60
        hour == (x1 \div 60) \div 60
        x2 == x1 - hour * 60 * 60
        minute == x2 \div 60
        x3 == x2 - minute * 60
        date_day == get_day(secs)
    IN  [year |-> date_year, month |-> ml.date_month, day |-> date_day,
         date |-> day + 1, hour |-> hour, minute |-> minute, second |-> x3]

\* DtCache::from_secs after its year loop, which left yl (the remainder x
\* and date_year): the month loop over the table of the resolved year.
DtCache_months(yl) == MonthLoop(yl.x, MonthTable(yl.date_year), 1)

\* DtCache::from_secs after its year loop.
DtCache_after_years(secs, yl) ==
    DtCache_fields(secs, yl.date_year, DtCache_months(yl))

DtCache_from_secs(secs) == DtCache_after_years(secs, YearLoop(secs, 1970))

(***************************************************************************)
(* The lazy cache (crate `cache`, whose code is not part of the sources):  *)
(* either Pending, holding the producer, here the seconds its closure      *)
(* captured, or Ready, holding the value.  calls counts the invocations of *)
(* the producer on this instance.                                          *)
(***************************************************************************)
Cache_new(secs) == [tag |-> "Pending", secs |-> secs, calls |-> 0]

Cache_get(cache) ==
    IF cache.tag = "Pending"
    THEN [tag |-> "Ready", value |-> DtCache_from_secs(cache.secs),
          calls |-> cache.calls + 1]
    ELSE cache

(***************************************************************************)
(* DateTime.                                                               *)
(***************************************************************************)
NoDateTime == [tag |-> "None"]

\* A plausible slip: the conversion is run at construction.
DateTime_from_secs_Eager(secs) ==
    [tag |-> "DateTime", secs |-> secs,
     cache |-> [tag |-> "Ready", value |-> DtCache_from_secs(secs),
                calls |-> 1]]

DateTime_from_secs(secs) ==
    [tag |-> "DateTime", secs |-> secs, cache |-> Cache_new(secs)]

\* What an accessor returns that read `field` of cache, the cache as
\* self.cache.get() left it: self after the call, and the value returned.
DateTime_read(self, cache, field) ==
    [self |-> [self EXCEPT !.cache = cache], out |-> cache.value[field]]

DateTime_year(self) == DateTime_read(self, Cache_get(self.cache), "year")

DateTime_month(self) == DateTime_read(self, Cache_get(self.cache), "month")

DateTime_day(self) == DateTime_read(self, Cache_get(self.cache), "day")

DateTime_date(self) == DateTime_read(self, Cache_get(self.cache), "date")

DateTime_hour(self) == DateTime_read(self, Cache_get(self.cache), "hour")

DateTime_minute(self) == DateTime_read(self, Cache_get(self.cache), "minute")

DateTime_second(self) == DateTime_read(self, Cache_get(self.cache), "second")

(***************************************************************************)
(* format!: "{}" of a usize is its decimal digits, "{:02}" pads them with  *)
(* zeros on the left to a width of at least 2.                             *)
(***************************************************************************)
Digit(d) ==
    CASE d = 0 -> "0" [] d = 1 -> "1" [] d = 2 -> "2" [] d = 3 -> "3"
      [] d = 4 -> "4" [] d = 5 -> "5" [] d = 6 -> "6" [] d = 7 -> "7"
      [] d = 8 -> "8" [] d = 9 -> "9"

RECURSIVE Display(_)
Display(n) == IF n < 10 THEN Digit(n) ELSE Display(n \div 10) \o Digit(n % 10)

RECURSIVE ZeroPad(_, _)
ZeroPad(s, width) == IF Len(s) >= width THEN s ELSE ZeroPad("0" \o s, width)

\* A plausible slip: "{}" where "{:02}" is meant.
Display02_Unpadded(n) == Display(n)

Display02(n) == ZeroPad(Display(n), 2)

\* The accessor named op, called on self.
DateTime_accessor(op, self) ==
    CASE op = "year" -> DateTime_year(self)
      [] op = "month" -> DateTime_month(self)
      [] op = "day" -> DateTime_day(self)
      [] op = "date" -> DateTime_date(self)
      [] op = "hour" -> DateTime_hour(self)
      [] op = "minute" -> DateTime_minute(self)
      [] op = "second" -> DateTime_second(self)

\* The accessors named by calls, called on self one after the other, r
\* being what the call before them returned and outs what the calls before
\* that one did: self after the last call, and what each call returned.
RECURSIVE DateTime_calls(_, _, _)
DateTime_calls(r, calls, outs) ==
    IF calls = << >>
    THEN [self |-> r.self, outs |-> Append(outs, r.out)]
    ELSE DateTime_calls(DateTime_accessor(Head(calls), r.self), Tail(calls),
                        Append(outs, r.out))

\* The end of as_time_stamp: c.outs are the values day(), month(), date(),
\* year(), hour(), minute() and second() returned, c.self is self after
\* these calls.
DateTime_format(c) ==
    LET day == CASE c.outs[1] = "Sunday" -> "Sun"
                 [] c.outs[1] = "Monday" -> "Mon"
                 [] c.outs[1] = "Tuesday" -> "Tue"
                 [] c.outs[1] = "Wednesday" -> "Wed"
                 [] c.outs[1] = "Thursday" -> "Thu"
                 [] c.outs[1] = "Friday" -> "Fri"
                 [] c.outs[1] = "Saturday" -> "Sat"
        month == CASE c.outs[2] = "January" -> "Jan"
                   [] c.outs[2] = "February" -> "Feb"
                   [] c.outs[2] = "March" -> "Mar"
                   [] c.outs[2] = "April" -> "Apr"
                   [] c.outs[2] = "May" -> "May"
                   [] c.outs[2] = "June" -> "Jun"
                   [] c.outs[2] = "July" -> "Jul"
                   [] c.outs[2] = "August" -> "Aug"
                   [] c.outs[2] = "September" -> "Sep"
                   [] c.outs[2] = "October" -> "Oct"
                   [] c.outs[2] = "November" -> "Nov"
                   [] c.outs[2] = "December" -> "Dec"
    IN  [self |-> c.self,
         out |-> day \o " " \o month \o " " \o Display(c.outs[3]) \o ", "
                 \o Display(c.outs[4]) \o "  " \o Display(c.outs[5]) \o ":"
                 \o Display02(c.outs[6]) \o ":" \o Display02(c.outs[7])
                 \o " (UTC)"]

\* as_time_stamp calls day(), month(), then date(), year(), hour(),
\* minute() and second() for the arguments of format!.
DateTime_as_time_stamp(self) ==
    DateTime_format(DateTime_calls(DateTime_day(self),
                                   << "month", "date", "year", "hour",
                                      "minute", "second" >>, << >>))

(***************************************************************************)
(* SystemTime: the instant tv_sec + tv_nsec / 10^9 seconds from the epoch, *)
(* tv_sec of either sign.  duration_since(UNIX_EPOCH) is Err for an        *)
(* instant before the epoch; unwrap panics on Err.                         *)
(***************************************************************************)
duration_since_UNIX_EPOCH(time) ==
    IF time.tv_sec >= 0
    THEN [tag |-> "Ok", secs |-> time.tv_sec, nanos |-> time.tv_nsec]
    ELSE [tag |-> "Err"]

\* From<SystemTime>::from: [panic |-> whether unwrap panicked, val |-> the
\* DateTime returned otherwise].
DateTime_from(time) ==
    LET r == duration_since_UNIX_EPOCH(time)
    IN  IF r.tag = "Err"
        THEN [panic |-> TRUE, val |-> NoDateTime]
        ELSE [panic |-> FALSE, val |-> DateTime_from_secs(r.secs)]

(***************************************************************************)
(* usize addition: an overflow panics in a build with overflow checks (the *)
(* debug profile) and wraps in one without (the release profile).          *)
(***************************************************************************)
usize_add(a, b, overflow_checks) ==
    IF a > USIZE_MAX - b
    THEN IF overflow_checks
         THEN [panic |-> TRUE, val |-> 0]
         ELSE [panic |-> FALSE, val |-> a - (USIZE_MAX - b) - 1]
    ELSE [panic |-> FALSE, val |-> a + b]

DateTime_add(self, other, overflow_checks) ==
    LET secs == usize_add(self.secs, other.secs, overflow_checks)
    IN  IF secs.panic
        THEN [panic |-> TRUE, val |-> NoDateTime]
        ELSE [panic |-> FALSE, val |-> DateTime_from_secs(secs.val)]

\* A plausible slip: the cache is not replaced.
DateTime_add_assign_KeepCache(self, other, overflow_checks) ==
    LET sum == usize_add(self.secs, other.secs, overflow_checks)
    IN  IF sum.panic
        THEN [panic |-> TRUE, val |-> self, created |-> 0]
        ELSE [panic |-> FALSE, val |-> [self EXCEPT !.secs = sum.val],
              created |-> 0]

\* AddAssign: [panic, val |-> self after the call, created |-> the caches
\* the call created].
DateTime_add_assign(self, other, overflow_checks) ==
    LET sum == usize_add(self.secs, other.secs, overflow_checks)
    IN  IF sum.panic
        THEN [panic |-> TRUE, val |-> self, created |-> 0]
        ELSE LET secs == sum.val
             IN  [panic |-> FALSE,
                  val |-> [self EXCEPT !.secs = secs,
                                       !.cache = Cache_new(secs)],
                  created |-> 1]

(***************************************************************************)
(* An independent decomposition of the proleptic Gregorian calendar, which *)
(* the conversion is compared with: the leap rule, the month lengths, the  *)
(* date of a day count and the day count of a date by era arithmetic, and  *)
(* the weekday of a date by the month-offset rule.                         *)
(***************************************************************************)
MonthNames ==
    << "January", "February", "March", "April", "May", "June", "July",
       "August", "September", "October", "November", "December" >>

DayNames ==
    << "Sunday", "Monday", "Tuesday", "Wednesday", "Thursday", "Friday",
       "Saturday" >>

MonthNumber(month) == CHOOSE m \in 1..12 : MonthNames[m] = month

RefLeap(y) == (y % 4 = 0 /\ y % 100 # 0) \/ y % 400 = 0

RefDaysInMonth(y, m) ==
    IF m = 2 THEN (IF RefLeap(y) THEN 29 ELSE 28)
    ELSE IF m \in {4, 6, 9, 11} THEN 30 ELSE 31

\* The days from 1970-01-01 to the date y-m-d.
DaysFromCivil(y, m, d) ==
    LET yy == IF m <= 2 THEN y - 1 ELSE y
        era == yy \div 400
        yoe == yy - era * 400
        mp == IF m > 2 THEN m - 3 ELSE m + 9
        doy == (153 * mp + 2) \div 5 + d - 1
        doe == yoe * 365 + yoe \div 4 - yoe \div 100 + doy
    IN  era * 146097 + doe - 719468

\* The date of the day `days` days after 1970-01-01.
CivilFromDays(days) ==
    LET z == days + 719468
        era == z \div 146097
        doe == z - era * 146097
        yoe == (doe - doe \div 1460 + doe \div 36524 - doe \div 146096)
                   \div 365
        doy == doe - (365 * yoe + yoe \div 4 - yoe \div 100)
        mp == (5 * doy + 2) \div 153
        d == doy - (153 * mp + 2) \div 5 + 1
        m == IF mp < 10 THEN mp + 3 ELSE mp - 9
        y == yoe + era * 400 + (IF m <= 2 THEN 1 ELSE 0)
    IN  [y |-> y, m |-> m, d |-> d]

\* The weekday of the date y-m-d, 0 for Sunday.
RefWeekday(y, m, d) ==
    LET t == << 0, 3, 2, 5, 0, 3, 5, 1, 4, 6, 2, 4 >>
        yy == IF m < 3 THEN y - 1 ELSE y
    IN  (yy + yy \div 4 - yy \div 100 + yy \div 400 + t[m] + d) % 7

\* The calendar fields of the instant s seconds after the epoch.
RefFields(s) ==
    LET c == CivilFromDays(s \div 86400)
        r == s % 86400
    IN  [year |-> c.y, month |-> MonthNames[c.m],
         day |-> DayNames[RefWeekday(c.y, c.m, c.d) + 1], date |-> c.d,
         hour |-> r \div 3600, minute |-> (r % 3600) \div 60,
         second |-> r % 60]

\* The first second of month m of year y.
MonthStart(y, m) == DaysFromCivil(y, m, 1) * 86400

(***************************************************************************)
(* The inputs.                                                             *)
(***************************************************************************)
\* The last year that starts within the word.
LastYear == 1970 + USIZE_MAX \div (366 * 86400)

\* The seconds counts the conversion is checked on: around every month and
\* year boundary, around the end of every 28 February, inside every month,
\* and the values of the tests.
ConvInputs ==
    { s \in
        { MonthStart(y, m) + off : y \in 1970..LastYear, m \in 1..12,
                                   off \in {-86401, -1, 0, 1, 59, 60} }
        \cup { DaysFromCivil(y, 2, 28) * 86400 + off :
                   y \in 1970..LastYear, off \in {86399, 86400} }
        \cup { MonthStart(y, m) + (2 * m + 3) * 86400
                   + ((y * 3607 + m * 601) % 86400) :
                   y \in 1970..LastYear, m \in 1..12 }
        \cup { 0, 842282624, 123456789, 234567890, 358024679, USIZE_MAX } :
      0 <= s /\ s <= USIZE_MAX }

\* The seconds counts of the DateTimes the operations are run on.
Inputs ==
    { 0, 59, 3600, 86399, 123456789, 842282624, 946684799, 951782400,
      USIZE_MAX - 86400, USIZE_MAX }

\* The seconds counts of the right operand of an addition.
Inputs2 == { 0, 1, 86400, 234567890, USIZE_MAX }

\* The instants From<SystemTime> and now are run on.
SystemTimes ==
    { [tv_sec |-> s, tv_nsec |-> n] :
          s \in {-86400, -1, 0, 1, 842282624}, n \in {0, 999999999} }

(***************************************************************************)
(* The state: the DateTime the operations are called on, the right operand *)
(* of the additions, whether the program panicked, and, as history, the    *)
(* last call with what it returned, the conversions run and the caches     *)
(* created for `date`, the add-assigns applied to it, the last of them     *)
(* (its operands and the cache it dropped), and the additions performed.   *)
(***************************************************************************)
VARIABLES date, date2, status, ret, runs, caches, assigns, last_assign, ops

vars ==
    << date, date2, status, ret, runs, caches, assigns, last_assign, ops >>

Accessors == {"year", "month", "day", "date", "hour", "minute", "second"}

Init ==
    /\ date = NoDateTime
    /\ date2 = NoDateTime
    /\ status = "running"
    /\ ret = [op |-> "none", arg |-> 0, val |-> 0]
    /\ runs = 0
    /\ caches = 0
    /\ assigns = 0
    /\ last_assign = [tag |-> "None"]
    /\ ops = 0

\* A new DateTime bound to `date`.
Bind(new, op, arg) ==
    /\ date' = new
    /\ ret' = [op |-> op, arg |-> arg, val |-> new.secs]
    /\ runs' = new.cache.calls
    /\ caches' = 1
    /\ assigns' = 0
    /\ last_assign' = [tag |-> "None"]

\* A panic: the program stops, no value is returned.
Panic(op, arg) ==
    /\ status' = "panicked"
    /\ ret' = [op |-> op, arg |-> arg, val |-> "panic"]
    /\ UNCHANGED << date, date2, runs, caches, assigns, last_assign >>

\* let date = DateTime::from_secs(secs), secs drawn from S.
FromSecs(S) ==
    \E secs \in S :
        /\ status = "running"
        /\ date.tag = "None"
        /\ Bind(DateTime_from_secs(secs), "from_secs", secs)
        /\ UNCHANGED << date2, status, ops >>

\* let date2 = DateTime::from_secs(secs).
FromSecs2 ==
    \E secs \in Inputs2 :
        /\ status = "running"
        /\ date2.tag = "None"
        /\ date2' = DateTime_from_secs(secs)
        /\ UNCHANGED << date, status, ret, runs, caches, assigns, last_assign,
                        ops >>

\* let date = DateTime::from(time).
FromSystemTime ==
    \E time \in SystemTimes :
        /\ status = "running"
        /\ date.tag = "None"
        /\ LET r == DateTime_from(time)
           IN  IF r.panic
               THEN Panic("from", time)
               ELSE /\ Bind(r.val, "from", time)
                    /\ UNCHANGED << date2, status >>
        /\ UNCHANGED ops

\* let date = DateTime::now(), the clock reading any of the instants.
Now ==
    \E time \in SystemTimes :
        /\ status = "running"
        /\ date.tag = "None"
        /\ LET r == duration_since_UNIX_EPOCH(time)
           IN  IF r.tag = "Err"
               THEN Panic("now", time)
               ELSE /\ Bind(DateTime_from_secs(r.secs), "now", time)
                    /\ UNCHANGED << date2, status >>
        /\ UNCHANGED ops

\* A call of a method of `date` that reads the cache: r is what it returns.
Call(op, r) ==
    /\ date' = r.self
    /\ ret' = [op |-> op, arg |-> 0, val |-> r.out]
    /\ runs' = runs + (r.self.cache.calls - date.cache.calls)
    /\ UNCHANGED << date2, status, caches, assigns, last_assign, ops >>

Live == status = "running" /\ date.tag = "DateTime"

Year == Live /\ Call("year", DateTime_year(date))

MonthOf == Live /\ Call("month", DateTime_month(date))

DayOf == Live /\ Call("day", DateTime_day(date))

Date == Live /\ Call("date", DateTime_date(date))

Hour == Live /\ Call("hour", DateTime_hour(date))

Minute == Live /\ Call("minute", DateTime_minute(date))

Second == Live /\ Call("second", DateTime_second(date))

AsTimeStamp == Live /\ Call("as_time_stamp", DateTime_as_time_stamp(date))

\* let date = date + &date2.
Add ==
    \E overflow_checks \in BOOLEAN :
        /\ Live
        /\ date2.tag = "DateTime"
        /\ ops < MaxOps
        /\ ops' = ops + 1
        /\ LET arg == [a |-> date.secs, b |-> date2.secs]
               r == DateTime_add(date, date2, overflow_checks)
           IN  IF r.panic
               THEN Panic("add", arg)
               ELSE /\ Bind(r.val, "add", arg)
                    /\ UNCHANGED << date2, status >>

\* date += &date2.
AddAssign ==
    \E overflow_checks \in BOOLEAN :
        /\ Live
        /\ date2.tag = "DateTime"
        /\ ops < MaxOps
        /\ ops' = ops + 1
        /\ LET arg == [a |-> date.secs, b |-> date2.secs]
               r == DateTime_add_assign(date, date2, overflow_checks)
           IN  IF r.panic
               THEN Panic("add_assign", arg)
               ELSE /\ date' = r.val
                    /\ ret' = [op |-> "add_assign", arg |-> arg,
                               val |-> r.val.secs]
                    /\ runs' = runs + (IF r.created = 0 THEN 0
                                       ELSE r.val.cache.calls)
                    /\ caches' = caches + r.created
                    /\ assigns' = assigns + 1
                    /\ last_assign' = [tag |-> "Some", a |-> date.secs,
                                        b |-> date2.secs,
                                        cache |-> date.cache]
                    /\ UNCHANGED << date2, status >>

Next ==
    \/ FromSecs(Inputs)
    \/ FromSecs2
    \/ FromSystemTime
    \/ Now
    \/ Year
    \/ MonthOf
    \/ DayOf
    \/ Date
    \/ Hour
    \/ Minute
    \/ Second
    \/ AsTimeStamp
    \/ Add
    \/ AddAssign

Spec == Init /\ [][Next]_vars

\* The conversion on its own: a DateTime of any of the seconds counts of
\* ConvInputs, and the calls that read it.
NextConv ==
    \/ FromSecs(ConvInputs)
    \/ Year
    \/ MonthOf
    \/ DayOf
    \/ Date
    \/ Hour
    \/ Minute
    \/ Second
    \/ AsTimeStamp

SpecConv == Init /\ [][NextConv]_vars

(***************************************************************************)
(* The claims about the conversion, checked under SpecConv.                *)
(***************************************************************************)
\* The cache of `date` holds the fields of a conversion that was run.
Converted == date.tag = "DateTime" /\ date.cache.tag = "Ready"

\* C1: the fields read from DateTime::from_secs(s) are the proleptic
\* Gregorian UTC date, weekday and clock time of the instant s seconds after
\* 1970-01-01T00:00:00, a Thursday, as the independent decomposition gives
\* them; s = 0 reads 1970 January Thursday 1 0:00:00 and s = 842282624 reads
\* 1996 September Monday 9 15:23:44.
C1_FieldsAreTheGregorianDate ==
    /\ Converted => date.cache.value = RefFields(date.secs)
    /\ (Converted /\ ret.op \in Accessors) =>
           ret.val = RefFields(date.secs)[ret.op]
    /\ (Converted /\ date.secs = 0) =>
           date.cache.value =
               [year |-> 1970, month |-> "January", day |-> "Thursday",
                date |-> 1, hour |-> 0, minute |-> 0, second |-> 0]
    /\ (Converted /\ date.secs = 842282624) =>
           date.cache.value =
               [year |-> 1996, month |-> "September", day |-> "Monday",
                date |-> 9, hour |-> 15, minute |-> 23, second |-> 44]

\* C1's case: the weekday of 842282624 was read, and is Monday.
C1_Witness ==
    /\ Converted
    /\ date.secs = 842282624
    /\ ret.op = "day"
    /\ ret.val = "Monday"

\* The seconds of the years 1970..year-1.
RECURSIVE SecondsBeforeYear(_)
SecondsBeforeYear(year) ==
    IF year <= 1970 THEN 0
    ELSE SecondsBeforeYear(year - 1)
             + (IF RefLeap(year - 1) THEN 366 ELSE 365) * 86400

\* The seconds of the months of `year` before month m.
RECURSIVE SecondsBeforeMonth(_, _)
SecondsBeforeMonth(year, m) ==
    IF m <= 1 THEN 0
    ELSE SecondsBeforeMonth(year, m - 1)
             + RefDaysInMonth(year, m - 1) * 86400

\* The seconds count of the fields f.
Recompose(f) ==
    SecondsBeforeYear(f.year)
        + SecondsBeforeMonth(f.year, MonthNumber(f.month))
        + (f.date - 1) * 86400 + f.hour * 3600 + f.minute * 60 + f.second

\* C7: round trip: the seconds of the years 1970..Y-1, plus those of the
\* months of Y before M, plus (D-1)*86400 + h*3600 + m*60 + sec, are s again,
\* and converting that sum gives the same fields.
C7_RoundTrip ==
    Converted =>
        /\ Recompose(date.cache.value) = date.secs
        /\ DtCache_from_secs(Recompose(date.cache.value)) = date.cache.value

\* C7's case: a conversion into a leap year, past its February.
C7_Witness ==
    /\ Converted
    /\ date.cache.value.year = 2000
    /\ date.cache.value.month = "March"
    /\ date.cache.value.date = 1
    /\ Recompose(date.cache.value) = 951868800

\* C8: every conversion result has year >= 1970, a day of the month between
\* 1 and the length of the resolved month in the resolved year (February 29
\* days in a leap year by the 400/100/4 rule, else 28), an hour in 0..23, a
\* minute and a second in 0..59.  The seconds counts of the word end before
\* 2100, the first year the 100 rule decides: the February of the month
\* table is compared with the rule for the years one to four centuries
\* after the resolved one as well.
C8_FieldsInRange ==
    Converted =>
        /\ date.cache.value.year >= 1970
        /\ date.cache.value.month \in Month
        /\ date.cache.value.date >= 1
        /\ date.cache.value.date <=
               RefDaysInMonth(date.cache.value.year,
                              MonthNumber(date.cache.value.month))
        /\ date.cache.value.hour \in 0..23
        /\ date.cache.value.minute \in 0..59
        /\ date.cache.value.second \in 0..59
        /\ \A k \in 0..4 :
               MonthTable(date.cache.value.year + 100 * k)[2].days
                   = RefDaysInMonth(date.cache.value.year + 100 * k, 2)

\* C8's case: the 29th of February of a leap year, at its last second.
C8_Witness ==
    /\ Converted
    /\ date.cache.value.year = 2000
    /\ date.cache.value.month = "February"
    /\ date.cache.value.date = 29
    /\ date.cache.value.hour = 23
    /\ date.cache.value.second = 59

\* What C9 says of the conversion of secs, yl being what its year loop left
\* and ml what its month loop left.
C9_Loops(secs, yl, ml, value) ==
    /\ yl.date_year >= 1970
    /\ yl.x >= 0
    /\ yl.x < sec_per_year(yl.date_year)
    /\ yl.x + SecondsBeforeYear(yl.date_year) = secs
    /\ yl.date_year - 1970 <= secs \div (365 * 86400)
    /\ ml.broke
    /\ ml.date_month \in Month
    /\ ml.x >= 0
    /\ ml.x < RefDaysInMonth(yl.date_year, MonthNumber(ml.date_month)) * 86400
    /\ ml.x + SecondsBeforeMonth(yl.date_year, MonthNumber(ml.date_month))
           = yl.x
    /\ value.year = yl.date_year
    /\ value.month = ml.date_month

\* C9: the conversion is total: the year loop stops through its break at
\* the first year from 1970 on whose length exceeds the remainder, after at
\* most secs / (365 days) years, and the month loop stops through its break
\* at one of the 12 months of the resolved year, never running off the end
\* of the table.
C9_LoopsBreak ==
    Converted =>
        C9_Loops(date.secs, YearLoop(date.secs, 1970),
                 DtCache_months(YearLoop(date.secs, 1970)), date.cache.value)

\* C9's case: the last second of a leap year, where the month loop reaches
\* the last entry of the table.
C9_Witness ==
    /\ Converted
    /\ date.secs = 852076799
    /\ date.cache.value.year = 1996
    /\ date.cache.value.month = "December"
    /\ date.cache.value.date = 31

\* f is the last second of a month.
LastSecondOfMonth(f) ==
    /\ f.date = RefDaysInMonth(f.year, MonthNumber(f.month))
    /\ f.hour = 23
    /\ f.minute = 59
    /\ f.second = 59

\* g is the first second of the month after the month of f.
FirstSecondOfNextMonth(f, g) ==
    /\ g.date = 1
    /\ g.hour = 0
    /\ g.minute = 0
    /\ g.second = 0
    /\ g.month = MonthNames[(MonthNumber(f.month) % 12) + 1]
    /\ g.year = IF f.month = "December" THEN f.year + 1 ELSE f.year

\* What C10 says of the fields f of secs, g being the fields of secs + 1 and
\* r the date of secs in the calendar.
C10_RollsOver(secs, f, g, r) ==
    /\ LastSecondOfMonth(f) => FirstSecondOfNextMonth(f, g)
    /\ (f.month = "February" /\ f.date = 28 /\ f.hour = 23 /\ f.minute = 59
            /\ f.second = 59) =>
           ((g.month = "February" /\ g.date = 29) <=> RefLeap(f.year))
    /\ (r.date = 1 /\ r.hour = 0 /\ r.minute = 0 /\ r.second = 0) =>
           /\ secs = SecondsBeforeYear(r.year)
                         + SecondsBeforeMonth(r.year, MonthNumber(r.month))
           /\ f.year = r.year
           /\ f.month = r.month
           /\ f.date = 1
           /\ f.hour = 0
           /\ f.minute = 0
           /\ f.second = 0
    /\ secs = 946684799 =>
           g = [year |-> 2000, month |-> "January", day |-> "Saturday",
                date |-> 1, hour |-> 0, minute |-> 0, second |-> 0]

\* C10: unit boundaries roll over: the second after the last second of a
\* month is day 1 at 0:00:00 of the next month, of the next year after
\* December; a seconds count that is the accumulated length of the years
\* and months before it is never reported in the prior year or month; the
\* day after 28 February is 29 February exactly in leap years.
C10_BoundariesRollOver ==
    (Converted /\ date.secs < USIZE_MAX) =>
        C10_RollsOver(date.secs, date.cache.value,
                      DtCache_from_secs(date.secs + 1), RefFields(date.secs))

\* C10's case: the last second of 1999 was converted.
C10_Witness ==
    /\ Converted
    /\ date.secs = 946684799
    /\ date.cache.value.year = 1999
    /\ LastSecondOfMonth(date.cache.value)
    /\ DtCache_from_secs(date.secs + 1).year = 2000

\* The two digits of n < 100.
TwoDigits(n) == Digit(n \div 10) \o Digit(n % 10)

\* The digits of n < 100, without padding.
UpToTwoDigits(n) == IF n < 10 THEN Digit(n) ELSE TwoDigits(n)

\* The four digits of 1000 <= n < 10000.
FourDigits(n) == TwoDigits(n \div 100) \o TwoDigits(n % 100)

\* The first three letters of the names of the weekdays and of the months.
DayAbbreviations == << "Sun", "Mon", "Tue", "Wed", "Thu", "Fri", "Sat" >>

MonthAbbreviations ==
    << "Jan", "Feb", "Mar", "Apr", "May", "Jun", "Jul", "Aug", "Sep", "Oct",
       "Nov", "Dec" >>

DayNumber(day) == CHOOSE d \in 1..7 : DayNames[d] = day

\* The time stamp of the fields f, for a year of four digits.
TimeStampOf(f) ==
    DayAbbreviations[DayNumber(f.day)] \o " "
        \o MonthAbbreviations[MonthNumber(f.month)] \o " "
        \o UpToTwoDigits(f.date) \o ", " \o FourDigits(f.year) \o "  "
        \o UpToTwoDigits(f.hour) \o ":" \o TwoDigits(f.minute) \o ":"
        \o TwoDigits(f.second) \o " (UTC)"

\* The length of the time stamp of the fields f: the abbreviations, the
\* separators, a year of four digits, a minute and a second of two, and one
\* or two digits of the day and of the hour.
TimeStampLength(f) ==
    3 + 1 + 3 + 1 + (IF f.date < 10 THEN 1 ELSE 2) + 2 + 4 + 2
        + (IF f.hour < 10 THEN 1 ELSE 2) + 1 + 2 + 1 + 2 + 6

\* C6: as_time_stamp() returns "<Weekday3> <Month3> <Day>, <Year>
\* <Hour>:<Minute2>:<Second2> (UTC)" of the fields the accessors return:
\* abbreviations of 3 letters, day, year and hour unpadded, minute and second
\* of exactly two digits, two spaces between the year and the hour;
\* 842282624 gives "Mon Sep 9, 1996  15:23:44 (UTC)".
C6_TimeStampFormat ==
    (Converted /\ ret.op = "as_time_stamp") =>
        /\ ret.val = TimeStampOf(date.cache.value)
        /\ Len(ret.val) = TimeStampLength(date.cache.value)
        /\ date.cache.value = DtCache_from_secs(date.secs)
        /\ date.secs = 842282624 =>
               ret.val = "Mon Sep 9, 1996  15:23:44 (UTC)"
        /\ date.secs = 0 => ret.val = "Thu Jan 1, 1970  0:00:00 (UTC)"

\* C6's case: the time stamp of 842282624 was returned.
C6_Witness ==
    /\ Converted
    /\ date.secs = 842282624
    /\ ret.op = "as_time_stamp"
    /\ ret.val = "Mon Sep 9, 1996  15:23:44 (UTC)"

(***************************************************************************)
(* The claims about DateTime, checked under Spec.                          *)
(***************************************************************************)
\* A call that reads the cache of `date`.
Reads == Year \/ MonthOf \/ DayOf \/ Date \/ Hour \/ Minute \/ Second
             \/ AsTimeStamp

\* A DateTime was constructed and bound to `date`.
Constructs == (FromSecs(Inputs) \/ FromSystemTime \/ Now \/ Add)
                  /\ status' = "running"

C3_Counts ==
    date.tag = "DateTime" =>
        /\ date.cache.calls \in {0, 1}
        /\ date.cache.tag = "Pending" <=> date.cache.calls = 0
        /\ caches = 1 + assigns
        /\ runs <= caches
        /\ (status = "running" /\ ret.op \in Accessors) =>
               /\ date.cache.tag = "Ready"
               /\ ret.val = date.cache.value[ret.op]

C3_Steps ==
    /\ Constructs => (runs' = 0 /\ date'.cache.tag = "Pending")
    /\ (AddAssign /\ status' = "running") => runs' = runs
    /\ (Reads /\ date.cache.tag = "Pending") =>
           /\ runs' = runs + 1
           /\ date'.cache.tag = "Ready"
           /\ date'.cache.value = DtCache_from_secs(date.secs)
    /\ (Reads /\ date.cache.tag = "Ready") =>
           /\ runs' = runs
           /\ date'.cache = date.cache

\* C3: the conversion is run zero times by a construction or an add-assign,
\* exactly once by the first accessor or as_time_stamp call on a cache
\* instance, and never again by the later calls on that instance; the
\* conversions run never exceed the cache instances created, 1 + the number
\* of add-assigns; whichever accessor came first, every accessor returns a
\* field of that one evaluation.
C3_ConvertedOncePerCache == []C3_Counts /\ [][C3_Steps]_vars

\* C3's case: both caches of a DateTime that was add-assigned to once were
\* read, the second more than once.
C3_Witness ==
    /\ Live
    /\ assigns = 1
    /\ caches = 2
    /\ runs = 2
    /\ ret.op = "second"
    /\ date.cache.calls = 1

\* C4: after x += &y, also when the fields of x were read and memoized
\* before, the cache of x is Pending again and every accessor of x returns
\* the conversion of the sum the addition stored, old x.secs + y.secs, never
\* a field of the old seconds; from_secs(123456789) += from_secs(234567890)
\* reads 1981 May Wednesday 6 19:17:59.
C4_AddAssignInvalidates ==
    (Live /\ last_assign.tag = "Some") =>
        /\ last_assign.a <= USIZE_MAX - last_assign.b =>
               date.secs = last_assign.a + last_assign.b
        /\ ret.op = "add_assign" =>
               (date.cache.tag = "Pending" /\ date.cache.secs = date.secs)
        /\ date.cache.tag = "Pending" => date.cache.secs = date.secs
        /\ date.cache.tag = "Ready" =>
               date.cache.value = DtCache_from_secs(date.secs)
        /\ ret.op \in Accessors =>
               ret.val = DtCache_from_secs(date.secs)[ret.op]
        /\ (date.cache.tag = "Ready" /\ last_assign.a = 123456789
                /\ last_assign.b = 234567890) =>
               date.cache.value =
                   [year |-> 1981, month |-> "May", day |-> "Wednesday",
                    date |-> 6, hour |-> 19, minute |-> 17, second |-> 59]

\* C4's case: the fields of 123456789 were memoized, 234567890 was added in
\* place, and the year read afterwards is 1981, not the memoized 1973.
C4_Witness ==
    /\ Live
    /\ last_assign.tag = "Some"
    /\ last_assign.cache.tag = "Ready"
    /\ last_assign.cache.value.year = 1973
    /\ ret.op = "year"
    /\ ret.val = 1981

\* C5: a + &b and a += &b cannot fail and leave a DateTime whose secs is
\* exactly a.secs + b.secs, for every pair of seconds counts of the word,
\* with b.secs unchanged.
C5_SumIsExact ==
    ret.op \in {"add", "add_assign"} =>
        /\ status = "running"
        /\ date.secs - ret.arg.a = ret.arg.b
        /\ date2.secs = ret.arg.b

\* C2: From<SystemTime> of an instant before the epoch returns a failure as
\* a result value, without a panic and without a DateTime; of an instant at
\* or after the epoch it returns a DateTime of the whole seconds elapsed.
C2_PreEpochIsAResult ==
    ret.op = "from" =>
        IF ret.arg.tv_sec < 0
        THEN status = "running" /\ date.tag = "None" /\ ret.val = "Err"
        ELSE /\ status = "running"
             /\ date.tag = "DateTime"
             /\ date.secs = ret.arg.tv_sec

=============================================================================
